---- MODULE Spec2Model ----
(***************************************************************************)
(* A state-machine model of src/src/aide.c: the control flow of main, the  *)
(* command-line parser read_param, the defaults set before and after the   *)
(* configuration is parsed, and the asynchronous signal handler.           *)
(*                                                                         *)
(* conf->action is a bit mask of DO_INIT, DO_COMPARE, DO_DIFF, DO_DRY_RUN; *)
(* it is modelled as the set of the flags that are set, so that `a & F' is *)
(* `F \in a', `a | b' is `a \cup b' and `a == 0' is `a = {}'.              *)
(*                                                                         *)
(* Functions whose bodies live in other files of the repository            *)
(* (parse_config, db_init, db_writespec, db_disk_init, populate_tree,      *)
(* write_tree, db_close, gen_report, check_rxtree, cmpurl, ...) are        *)
(* modelled by the results main can observe: each returns any of its       *)
(* possible results, chosen by \E.                                         *)
(***************************************************************************)
EXTENDS Integers, Sequences, FiniteSets

VARIABLES
  pc,                 \* position of main; after an exit, where the run ended
  exited,             \* "no", or how the process ended: "main", "signal", "fault"
  exit_code,          \* the exit status expression, as written in the source
  conf_alloc,         \* conf != NULL
  action,             \* conf->action
  catch_mmap,         \* conf->catch_mmap
  check_path,         \* conf->check_path != NULL
  url_in,             \* conf->database_in.url   (NoUrl is NULL)
  url_out,            \* conf->database_out.url
  url_new,            \* conf->database_new.url
  db_out_attrs,       \* conf->db_out_attrs
  root_prefix_length, \* conf->root_prefix_length
  open,               \* database handles opened by db_init and not yet closed
  calls,              \* the database / filesystem operations main has called, in order
  exitcode,           \* main's local `exitcode' (the value gen_report returned)
  handlers,           \* signals whose disposition is sig_handler
  last_signal,        \* the last signal sig_handler handled
  armed,              \* number of times catch_mmap was set to 1
  recovered,          \* number of SIGBUS faults sig_handler recovered from
  ncommands,          \* number of command options getopt_long has returned
  match,              \* main's local `match': {} until check_rxtree returned
  groupsyms,          \* conf->groupsyms: the group table, name -> attribute set
  build,              \* the WITH_... macros the program was compiled with
  fips                \* gcry_fips_mode_active()

vars == <<pc, exited, exit_code, conf_alloc, action, catch_mmap, check_path,
          url_in, url_out, url_new, db_out_attrs, root_prefix_length,
          open, calls, exitcode, handlers, last_signal, armed, recovered,
          ncommands, match, groupsyms, build, fips>>

procv == <<pc, exited, exit_code>>
confv == <<conf_alloc, action, check_path, url_in, url_out, url_new,
           db_out_attrs, root_prefix_length, ncommands, groupsyms>>
dbv   == <<open, calls>>
sigv  == <<catch_mmap, handlers, last_signal, armed, recovered>>
envv  == <<build, fips>>

(***************************************************************************)
(* Bounds of the model.                                                    *)
(***************************************************************************)
\* number of distinct database locations a URL can resolve to
MaxLoc == 2
\* number of times the flag catch_mmap is armed at most
MaxArm == 1

NoUrl == 0
Locations == 1..MaxLoc
Urls == {NoUrl} \cup Locations

DO_INIT    == "DO_INIT"
DO_COMPARE == "DO_COMPARE"
DO_DIFF    == "DO_DIFF"
DO_DRY_RUN == "DO_DRY_RUN"

DATABASE_IN  == "database_in"
DATABASE_OUT == "database_out"
DATABASE_NEW == "database_new"

Signals == {"SIGBUS", "SIGTERM", "SIGUSR1", "SIGHUP"}

\* the attributes db_out_attrs is modelled over
Attrs == {"filename", "attr", "perm", "inode", "size", "sizeg"}

\* the macros of the optional parts of a build that aide.c tests
BuildOptions ==
  {"WITH_ACL", "WITH_SELINUX", "WITH_XATTR", "WITH_E2FSATTRS",
   "WITH_CAPABILITIES", "WITH_MHASH", "WITH_GCRYPT"}


(***************************************************************************)
(* Process start.  main's first statement installs sig_handler for the     *)
(* four signals (line 580); conf is still the NULL global of line 57.      *)
(***************************************************************************)
init_sighandler(h) == h \cup {"SIGBUS", "SIGTERM", "SIGUSR1", "SIGHUP"}

\* the process as main finds it after line 580, in a program compiled with
\* the macros `b' and with libgcrypt's FIPS mode `f'
InitProcess(b, f) ==
  /\ build = b
  /\ fips = f
  /\ pc = "init_crypto_lib"
  /\ exited = "no"
  /\ exit_code = "none"
  /\ conf_alloc = FALSE
  /\ action = {}
  /\ catch_mmap = 0
  /\ check_path = FALSE
  /\ url_in = NoUrl
  /\ url_out = NoUrl
  /\ url_new = NoUrl
  /\ db_out_attrs = {}
  /\ root_prefix_length = 0
  /\ open = {}
  /\ calls = <<>>
  /\ exitcode = "none"
  /\ handlers = init_sighandler({})
  /\ last_signal = "none"
  /\ armed = 0
  /\ recovered = 0
  /\ ncommands = 0
  /\ match = {}
  /\ groupsyms = <<>>

\* the build the runs of main are followed in
ReferenceBuild ==
  {"WITH_GCRYPT", "WITH_ACL", "WITH_SELINUX", "WITH_XATTR", "WITH_E2FSATTRS",
   "WITH_CAPABILITIES"}

Init == InitProcess(ReferenceBuild, FALSE)

\* the same start in any build: fips mode is a state of libgcrypt
InitAnyBuild ==
  \E b \in SUBSET BuildOptions, f \in BOOLEAN :
     /\ f => "WITH_GCRYPT" \in b
     /\ InitProcess(b, f)

Running == exited = "no"

\* exit(code) called from main (or from a function main called)
Exit(code) ==
  /\ pc' = pc
  /\ exited' = "main"
  /\ exit_code' = code

Goto(l) ==
  /\ pc' = l
  /\ UNCHANGED <<exited, exit_code>>

(***************************************************************************)
(* sig_handler.  It runs asynchronously, between any two steps of main.    *)
(* signal() either keeps the disposition across a delivery (BSD) or resets *)
(* it to the default (System V); sig_handler ends by calling               *)
(* init_sighandler again.                                                  *)
(***************************************************************************)
\* case SIGBUS, lines 125-134: what the test of conf->catch_mmap decides
SigbusRecovers(flag) == flag = 1

\* sig_handler with a case SIGTERM that ends the process
sig_handler_TermExits(signum, disp) ==
  /\ last_signal' = signum
  /\ IF signum = "SIGTERM"
     THEN /\ pc' = pc
          /\ exited' = "signal"
          /\ exit_code' = "EXIT_FAILURE"
          /\ UNCHANGED <<handlers, catch_mmap, recovered>>
     ELSE IF signum = "SIGBUS" /\ conf_alloc /\ catch_mmap = 1
     THEN /\ catch_mmap' = 0
          /\ recovered' = recovered + 1
          /\ handlers' = init_sighandler(disp)
          /\ UNCHANGED procv
     ELSE IF signum = "SIGBUS"
     THEN /\ pc' = pc
          /\ exited' = IF conf_alloc THEN "signal" ELSE "fault"
          /\ exit_code' = IF conf_alloc THEN "EXIT_FAILURE" ELSE "SIGSEGV"
          /\ UNCHANGED <<handlers, catch_mmap, recovered>>
     ELSE /\ handlers' = init_sighandler(disp)
          /\ UNCHANGED <<procv, catch_mmap, recovered>>
  /\ UNCHANGED <<confv, dbv, exitcode, match, envv, armed>>

\* sig_handler without the call of init_sighandler at line 148
sig_handler_NoReinstall(signum, disp) ==
  /\ last_signal' = signum
  /\ IF signum = "SIGBUS" /\ ~conf_alloc
     THEN /\ pc' = pc
          /\ exited' = "fault"
          /\ exit_code' = "SIGSEGV"
          /\ UNCHANGED <<handlers, catch_mmap, recovered>>
     ELSE IF signum = "SIGBUS" /\ catch_mmap # 1
     THEN /\ pc' = pc
          /\ exited' = "signal"
          /\ exit_code' = "EXIT_FAILURE"
          /\ UNCHANGED <<handlers, catch_mmap, recovered>>
     ELSE /\ catch_mmap' = IF signum = "SIGBUS" THEN 0 ELSE catch_mmap
          /\ recovered' = IF signum = "SIGBUS" THEN recovered + 1
                                               ELSE recovered
          /\ handlers' = disp
          /\ UNCHANGED procv
  /\ UNCHANGED <<confv, dbv, exitcode, match, envv, armed>>

\* `disp' is the disposition table on entry to the handler
sig_handler(signum, disp) ==
  /\ last_signal' = signum
  /\ IF signum = "SIGBUS"
     THEN IF ~conf_alloc
          THEN \* conf is NULL: conf->catch_mmap dereferences a null pointer
               /\ pc' = pc
               /\ exited' = "fault"
               /\ exit_code' = "SIGSEGV"
               /\ UNCHANGED <<handlers, catch_mmap, recovered>>
          ELSE IF SigbusRecovers(catch_mmap)
               THEN /\ catch_mmap' = 0
                    /\ recovered' = recovered + 1
                    /\ handlers' = init_sighandler(disp)
                    /\ UNCHANGED procv
               ELSE /\ pc' = pc
                    /\ exited' = "signal"
                    /\ exit_code' = "EXIT_FAILURE"
                    /\ UNCHANGED <<handlers, catch_mmap, recovered>>
     ELSE \* SIGHUP, SIGTERM and SIGUSR1 only write to the log
          /\ handlers' = init_sighandler(disp)
          /\ UNCHANGED <<procv, catch_mmap, recovered>>
  /\ UNCHANGED <<confv, dbv, exitcode, match, envv, armed>>

\* the delivery of a signal whose disposition is sig_handler
Deliver(signum) ==
  /\ Running
  /\ signum \in handlers
  /\ \E reset \in {{}, {signum}} : sig_handler(signum, handlers \ reset)

Signal == \E signum \in Signals : Deliver(signum)

(***************************************************************************)
(* The mapped read of a file (in populate_tree) arms the flag before it    *)
(* touches the mapping and clears it afterwards.                           *)
(***************************************************************************)
InPopulate == pc \in {"in_populate_tree", "in_populate_tree_dry"}

ArmCatchMmap ==
  /\ Running
  /\ InPopulate
  /\ armed < MaxArm
  /\ catch_mmap' = 1
  /\ armed' = armed + 1
  /\ UNCHANGED <<procv, confv, dbv, exitcode, match, envv, handlers,
                 last_signal, recovered>>

DisarmCatchMmap ==
  /\ Running
  /\ InPopulate
  /\ catch_mmap = 1
  /\ catch_mmap' = 0
  /\ UNCHANGED <<procv, confv, dbv, exitcode, match, envv, handlers,
                 last_signal, armed, recovered>>

(***************************************************************************)
(* main, lines 582-584.                                                    *)
(***************************************************************************)
\* the results of !gcry_check_version(NEED_LIBGCRYPT_VERSION), line 113
LibraryTooOld(b) == IF "WITH_GCRYPT" \in b THEN BOOLEAN ELSE {FALSE}

\* init_crypto_lib exiting with the status of the C library
M_init_crypto_lib_ExitFailure ==
  /\ Running
  /\ pc = "init_crypto_lib"
  /\ \E too_old \in LibraryTooOld(build) :
        IF too_old THEN Exit("EXIT_FAILURE")
                   ELSE Goto("setdefaults_before_config")
  /\ UNCHANGED <<confv, dbv, sigv, exitcode, match, envv>>

\* init_crypto_lib: with libgcrypt, a library that is too old ends the run
M_init_crypto_lib ==
  /\ Running
  /\ pc = "init_crypto_lib"
  /\ \E too_old \in LibraryTooOld(build) :
        IF too_old THEN Exit("VERSION_MISMATCH_ERROR")
                   ELSE Goto("setdefaults_before_config")
  /\ UNCHANGED <<confv, dbv, sigv, exitcode, match, envv>>

\* setdefaults_before_config, line 373: checked_malloc returns memory whose
\* contents are indeterminate until the assignments that follow
M_setdefaults_malloc ==
  /\ Running
  /\ pc = "setdefaults_before_config"
  /\ conf_alloc' = TRUE
  /\ \E garbage \in {0, 1} : catch_mmap' = garbage
  /\ Goto("setdefaults_fields")
  /\ UNCHANGED <<action, check_path, url_in, url_out, url_new, db_out_attrs,
                 root_prefix_length, ncommands, groupsyms, dbv, exitcode,
                 match, envv, handlers, last_signal, armed, recovered>>

DefaultDbOutAttrs == {"filename", "attr", "perm", "inode"}

(***************************************************************************)
(* setdefaults_before_config, lines 486-532: the predefined groups.  An    *)
(* attribute set (DB_ATTR_TYPE, a bit mask of ATTR(attr_...)) is modelled  *)
(* as the set of the names of its attributes.                              *)
(***************************************************************************)
\* the hash attributes the model follows
HashAttrs == {"md5", "sha256"}

\* the attributes with a config_name in the table `attributes': the loop of
\* lines 488-492 defines one group for each, here under the attribute's name
NamedAttrs ==
  {"perm", "ftype", "inode", "linkcount", "uid", "gid", "size", "sizeg",
   "linkname", "mtime", "ctime", "acl", "selinux", "xattrs", "e2fsattrs",
   "capabilities"} \cup HashAttrs

\* get_hashes(false): the hash attributes the hash library of the build
\* provides (print_version lists them as available, line 177); libgcrypt in
\* FIPS mode provides no md5 (line 520)
get_hashes(b, f) ==
  IF "WITH_MHASH" \in b THEN HashAttrs
  ELSE IF "WITH_GCRYPT" \in b
       THEN (IF f THEN HashAttrs \ {"md5"} ELSE HashAttrs)
       ELSE {}

\* do_groupdef(name, mask): the group is inserted, or overwritten
do_groupdef(table, name, mask) ==
  [n \in (DOMAIN table) \cup {name} |-> IF n = name THEN mask ELSE table[n]]

\* lines 494-509
PlatformAttrs(b) ==
  (IF "WITH_ACL" \in b THEN {"acl"} ELSE {})
  \cup (IF "WITH_SELINUX" \in b THEN {"selinux"} ELSE {})
  \cup (IF "WITH_XATTR" \in b THEN {"xattrs"} ELSE {})
  \cup (IF "WITH_E2FSATTRS" \in b THEN {"e2fsattrs"} ELSE {})
  \cup (IF "WITH_CAPABILITIES" \in b THEN {"capabilities"} ELSE {})

\* line 511
common_attrs == {"perm", "ftype", "inode", "linkcount", "uid", "gid"}

\* lines 513-525
GROUP_R_HASHES(b, f) ==
  LET mhash == IF "WITH_MHASH" \in b THEN {"md5"} ELSE {}
  IN  IF "WITH_GCRYPT" \in b /\ ~f THEN {"md5"} ELSE mhash

\* group R without its time stamps
GroupR_NoTimes(hashes, X) ==
  common_attrs \cup {"size", "linkname"} \cup hashes \cup X

\* line 527: the mask of group R
GroupR(hashes, X) ==
  common_attrs \cup {"size", "linkname", "mtime", "ctime"} \cup hashes \cup X

\* group L with the mask of line 529
GroupL_Growing(X) == common_attrs \cup {"sizeg", "linkname"} \cup X

\* line 528: the mask of group L
GroupL(X) == common_attrs \cup {"linkname"} \cup X

\* line 529: the mask of group >
GroupGrowing(X) == common_attrs \cup {"sizeg", "linkname"} \cup X

\* lines 486-532: the group table setdefaults_before_config leaves
DefaultGroups(b, f) ==
  LET X  == PlatformAttrs(b)
      g0 == [a \in NamedAttrs |-> {a}]
      g1 == do_groupdef(g0, "R", GroupR(GROUP_R_HASHES(b, f), X))
      g2 == do_groupdef(g1, "L", GroupL(X))
      g3 == do_groupdef(g2, ">", GroupGrowing(X))
      g4 == do_groupdef(g3, "H", get_hashes(b, f))
      g5 == do_groupdef(g4, "X", X)
  IN  do_groupdef(g5, "E", {})

\* setdefaults_before_config, lines 374-532
M_setdefaults_fields ==
  /\ Running
  /\ pc = "setdefaults_fields"
  /\ check_path' = FALSE
  /\ db_out_attrs' = DefaultDbOutAttrs
  /\ url_in' = NoUrl
  /\ url_out' = NoUrl
  /\ url_new' = NoUrl
  /\ action' = {}
  /\ catch_mmap' = 0
  /\ root_prefix_length' = 0
  /\ groupsyms' = DefaultGroups(build, fips)
  /\ Goto("read_param")
  /\ UNCHANGED <<conf_alloc, ncommands, dbv, exitcode, match, envv,
                 handlers, last_signal, armed, recovered>>


(***************************************************************************)
(* read_param, lines 224-367.                                              *)
(***************************************************************************)
\* the commands of lines 352-357 and the action each one sets
CommandOptions == {"i", "n", "C", "u", "E", "D"}

CommandAction(option) ==
  CASE option = "i" -> {DO_INIT}
    [] option = "n" -> {DO_INIT, DO_DRY_RUN}
    [] option = "C" -> {DO_COMPARE}
    [] option = "u" -> {DO_INIT, DO_COMPARE}
    [] option = "E" -> {DO_DIFF}
    [] option = "D" -> {DO_DRY_RUN}

\* ACTION_CASE without the test of conf->action == 0
ACTION_CASE_Accumulating(a, _action) ==
  [action |-> a \cup _action, invalid |-> FALSE]

\* ACTION_CASE, lines 213-222: the action after the option, and whether the
\* option is rejected
ACTION_CASE(a, _action) ==
  IF a = {} THEN [action |-> _action, invalid |-> FALSE]
            ELSE [action |-> a, invalid |-> TRUE]

\* options that only record a string for later (config file, before, after)
PlainOptions == {"c", "B", "A"}

\* the ways the argument of -p can be malformed (lines 327-342), and "ok"
PathCheckArgs == {"ok", "invalid_file_type", "not_absolute", "too_short"}

\* one iteration of the getopt_long loop that reads a command option
ReadCommand(option) ==
  /\ Running
  /\ pc = "read_param"
  /\ ncommands' = ncommands + 1
  /\ LET r == ACTION_CASE(action, CommandAction(option)) IN
       /\ action' = r.action
       /\ IF r.invalid THEN Exit("INVALID_ARGUMENT_ERROR")
                       ELSE Goto("read_param")
  /\ UNCHANGED <<conf_alloc, check_path, url_in, url_out, url_new,
                 db_out_attrs, root_prefix_length, groupsyms, dbv, sigv,
                 exitcode, match, envv>>

\* case 'p', lines 322-348
ReadPathCheck(arg) ==
  /\ Running
  /\ pc = "read_param"
  /\ ncommands' = ncommands + 1
  /\ IF action = {}
     THEN /\ action' = {DO_DRY_RUN}
          /\ IF arg = "ok"
             THEN /\ check_path' = TRUE
                  /\ Goto("read_param")
             ELSE /\ Exit("INVALID_ARGUMENT_ERROR")
                  /\ UNCHANGED check_path
     ELSE /\ Exit("INVALID_ARGUMENT_ERROR")
          /\ UNCHANGED <<action, check_path>>
  /\ UNCHANGED <<conf_alloc, url_in, url_out, url_new, db_out_attrs,
                 root_prefix_length, groupsyms, dbv, sigv, exitcode, match,
                 envv>>

\* the options that are no command
ReadOther ==
  /\ Running
  /\ pc = "read_param"
  /\ \/ \E option \in PlainOptions :
          Goto("read_param")
     \/ \E result \in {"ok", "bad_regex", "no_memory"} :
          \* case 'l', lines 282-311
          CASE result = "ok" -> Goto("read_param")
            [] result = "bad_regex" -> Exit("INVALID_ARGUMENT_ERROR")
            [] result = "no_memory" -> Exit("EXIT_FAILURE")
     \/ \E level_ok \in BOOLEAN :
          \* case 'L', lines 312-321
          IF level_ok THEN Goto("read_param")
                      ELSE Exit("INVALID_ARGUMENT_ERROR")
     \/ \E option \in {"h", "v"} :
          \* usage(0) and print_version() both end in exit(0)
          Exit("0")
     \/ \E option \in {"V", "r", "?"} :
          \* options no longer supported, and options getopt_long rejects
          Exit("INVALID_ARGUMENT_ERROR")
  /\ UNCHANGED <<confv, dbv, sigv, exitcode, match, envv>>

M_read_param ==
  \/ \E option \in CommandOptions : ReadCommand(option)
  \/ \E arg \in PathCheckArgs : ReadPathCheck(arg)
  \/ ReadOther

\* getopt_long returns -1; lines 363-366 reject a parameter that is left over
M_read_param_end ==
  /\ Running
  /\ pc = "read_param"
  /\ \E extra_parameter \in BOOLEAN :
        IF extra_parameter THEN Exit("INVALID_ARGUMENT_ERROR")
                           ELSE Goto("parse_config")
  /\ UNCHANGED <<confv, dbv, sigv, exitcode, match, envv>>


(***************************************************************************)
(* main, lines 599-624: the configuration and the path check.              *)
(***************************************************************************)
\* the values the configuration can give db_out_attrs (option database_attrs)
DbOutAttrsChoices ==
  { DefaultDbOutAttrs \cup extra : extra \in SUBSET {"size", "sizeg"} }

\* parse_config: the configuration defines any of the three database URLs,
\* the attributes of the output database and the root prefix, or is rejected
M_parse_config ==
  /\ Running
  /\ pc = "parse_config"
  /\ \/ /\ Exit("INVALID_CONFIGURELINE_ERROR")
        /\ UNCHANGED <<url_in, url_out, url_new, db_out_attrs,
                       root_prefix_length>>
     \/ /\ url_in' \in Urls
        /\ url_out' \in Urls
        /\ url_new' \in Urls
        /\ db_out_attrs' \in DbOutAttrsChoices
        /\ root_prefix_length' \in {0, 1}
        /\ Goto("setdefaults_after_config")
  /\ UNCHANGED <<conf_alloc, action, check_path, ncommands, groupsyms, dbv,
                 sigv, exitcode, match, envv>>

\* lines 559-561 without the test of conf->action == 0
DefaultAction_Always(a) == {DO_COMPARE}

\* lines 559-561
DefaultAction(a) == IF a = {} THEN {DO_COMPARE} ELSE a

\* setdefaults_after_config, lines 536-566.  DEFAULT_DB and DEFAULT_DB_OUT
\* are build options: when one is defined it fills in a URL that is NULL.
M_setdefaults_after_config ==
  /\ Running
  /\ pc = "setdefaults_after_config"
  /\ \E default_db \in Urls :
        url_in' = IF url_in = NoUrl THEN default_db ELSE url_in
  /\ \E default_db_out \in Urls :
        url_out' = IF url_out = NoUrl THEN default_db_out ELSE url_out
  /\ action' = DefaultAction(action)
  /\ Goto("path_check")
  /\ UNCHANGED <<conf_alloc, check_path, url_new, db_out_attrs,
                 root_prefix_length, ncommands, groupsyms, dbv, sigv,
                 exitcode, match, envv>>

\* the values check_rxtree returns: < 0, 0 or > 0
MatchResults == {-1, 0, 1, 2}

\* exit(match?1:0)
PathCheckExit_Inverted(m) ==
  IF m < 0 THEN "2" ELSE IF m # 0 THEN "1" ELSE "0"

\* lines 618-623: the exit status for the result of check_rxtree
PathCheckExit(m) ==
  IF m < 0 THEN "2" ELSE IF m # 0 THEN "0" ELSE "1"

\* lines 615-624
M_path_check ==
  /\ Running
  /\ pc = "path_check"
  /\ IF check_path
     THEN \E m \in MatchResults :
            /\ match' = {m}
            /\ Exit(PathCheckExit(m))
     ELSE /\ Goto("check_database_in")
          /\ UNCHANGED match
  /\ UNCHANGED <<confv, dbv, sigv, exitcode, envv>>

(***************************************************************************)
(* main, lines 626-652: the sanity checks of the configuration.            *)
(***************************************************************************)
\* cmpurl(u1, u2) == RETOK: the two URLs name the same location
cmpurl(u1, u2) == u1 = u2

\* line 627
MissingDatabaseIn(a, in) ==
  (a \cap {DO_DIFF, DO_COMPARE}) # {} /\ in = NoUrl

\* the check of line 631 left out
MissingDatabaseOut_Unchecked(a, out) == FALSE

\* line 631
MissingDatabaseOut(a, out) ==
  DO_INIT \in a /\ out = NoUrl

\* line 635
SameInOut(in, out) ==
  in # NoUrl /\ out # NoUrl /\ cmpurl(in, out)

\* lines 635-647
SameUrlRejected(a, in, out) ==
  /\ SameInOut(in, out)
  /\ \/ (DO_INIT \in a /\ DO_COMPARE \in a)
     \/ DO_DIFF \in a

\* line 648
MissingDiffDatabase(a, in, new) ==
  DO_DIFF \in a /\ (new = NoUrl \/ in = NoUrl)

M_check_database_in ==
  /\ Running
  /\ pc = "check_database_in"
  /\ IF MissingDatabaseIn(action, url_in)
     THEN Exit("INVALID_ARGUMENT_ERROR")
     ELSE Goto("check_database_out")
  /\ UNCHANGED <<confv, dbv, sigv, exitcode, match, envv>>

M_check_database_out ==
  /\ Running
  /\ pc = "check_database_out"
  /\ IF MissingDatabaseOut(action, url_out)
     THEN Exit("INVALID_ARGUMENT_ERROR")
     ELSE Goto("check_same_url")
  /\ UNCHANGED <<confv, dbv, sigv, exitcode, match, envv>>

M_check_same_url ==
  /\ Running
  /\ pc = "check_same_url"
  /\ IF SameUrlRejected(action, url_in, url_out)
     THEN Exit("INVALID_ARGUMENT_ERROR")
     ELSE Goto("check_diff_databases")
  /\ UNCHANGED <<confv, dbv, sigv, exitcode, match, envv>>

M_check_diff_databases ==
  /\ Running
  /\ pc = "check_diff_databases"
  /\ IF MissingDiffDatabase(action, url_in, url_new)
     THEN Exit("INVALID_ARGUMENT_ERROR")
     ELSE Goto("normalise_db_out_attrs")
  /\ UNCHANGED <<confv, dbv, sigv, exitcode, match, envv>>

\* lines 654-657 left out
NormaliseDbOutAttrs_Noop(attrs) == attrs

\* lines 654-657
NormaliseDbOutAttrs(attrs) ==
  IF "sizeg" \in attrs THEN attrs \cup {"size"} ELSE attrs

M_normalise_db_out_attrs ==
  /\ Running
  /\ pc = "normalise_db_out_attrs"
  /\ db_out_attrs' = NormaliseDbOutAttrs(db_out_attrs)
  /\ Goto("dry_init")
  /\ UNCHANGED <<conf_alloc, action, check_path, url_in, url_out, url_new,
                 root_prefix_length, ncommands, groupsyms, dbv, sigv,
                 exitcode, match, envv>>


(***************************************************************************)
(* main, lines 659-729: the phases of the run.                             *)
(***************************************************************************)
Call(op) == calls' = Append(calls, op)

Called(op) == \E i \in 1..Len(calls) : calls[i] = op

\* db_init(&db, readonly, ...) returning RETOK: the handle is open
db_init(handle, readonly) ==
  open' = open \cup {[db |-> handle, readonly |-> readonly]}

\* db_close(): every open handle is flushed and released
db_close == open' = {}

\* the tests of conf->action in lines 659, 668, 683, 698, 702, 706 and 714
IsDryInit(a)      == DO_INIT \in a /\ DO_DRY_RUN \in a
\* line 668 without its test
IsDryRun_Never(a) == FALSE
IsDryRun(a)       == DO_DRY_RUN \in a
OpensDbOut(a)     == DO_INIT \in a
\* line 698 without its test
InitsDisk_Always(a) == TRUE
InitsDisk(a)      == DO_INIT \in a \/ DO_COMPARE \in a
\* line 702 testing DO_COMPARE only
OpensDbIn_CompareOnly(a) == DO_COMPARE \in a
OpensDbIn(a)      == DO_COMPARE \in a \/ DO_DIFF \in a
OpensDbNew(a)     == DO_DIFF \in a
\* line 714 without its test
WritesTree_Always(a) == TRUE
WritesTree(a)     == DO_INIT \in a
ChecksRootPrefix(a, len) == (a \cap {DO_INIT, DO_COMPARE}) # {} /\ len > 0

\* lines 659-662
M_dry_init ==
  /\ Running
  /\ pc = "dry_init"
  /\ IF IsDryInit(action)
     THEN /\ Call("db_disk_init")
          /\ \E ok \in BOOLEAN :
               IF ok THEN Goto("populate_tree_dry") ELSE Exit("IO_ERROR")
     ELSE /\ Goto("non_dry")
          /\ UNCHANGED calls
  /\ UNCHANGED <<confv, open, sigv, exitcode, match, envv>>

\* lines 663-664: populate_tree(conf->tree, true) is entered
M_populate_tree_dry ==
  /\ Running
  /\ pc = "populate_tree_dry"
  /\ Call("populate_tree(dry)")
  /\ Goto("in_populate_tree_dry")
  /\ UNCHANGED <<confv, open, sigv, exitcode, match, envv>>

\* lines 664-665: populate_tree returns and main exits
M_dry_init_exit ==
  /\ Running
  /\ pc = "in_populate_tree_dry"
  /\ Exit("0")
  /\ UNCHANGED <<confv, dbv, sigv, exitcode, match, envv>>

\* lines 668 and 729: a dry run that is no dry init returns RETOK from main
M_non_dry ==
  /\ Running
  /\ pc = "non_dry"
  /\ IF IsDryRun(action) THEN Exit("RETOK") ELSE Goto("init_report_urls")
  /\ UNCHANGED <<confv, dbv, sigv, exitcode, match, envv>>

\* lines 670-672
M_init_report_urls ==
  /\ Running
  /\ pc = "init_report_urls"
  /\ Call("init_report_urls")
  /\ \E ok \in BOOLEAN :
        IF ok THEN Goto("root_prefix")
              ELSE Exit("INVALID_CONFIGURELINE_ERROR")
  /\ UNCHANGED <<confv, open, sigv, exitcode, match, envv>>

\* lines 674-682
M_root_prefix ==
  /\ Running
  /\ pc = "root_prefix"
  /\ IF ChecksRootPrefix(action, root_prefix_length)
     THEN \E opendir_ok \in BOOLEAN :
            IF opendir_ok THEN Goto("db_init_out")
                          ELSE Exit("INVALID_CONFIGURELINE_ERROR")
     ELSE Goto("db_init_out")
  /\ UNCHANGED <<confv, dbv, sigv, exitcode, match, envv>>

\* lines 683-697 moved behind the probe: database_out is not opened here
M_db_init_out_Deferred ==
  /\ Running
  /\ pc = "db_init_out"
  /\ Goto("db_disk_init")
  /\ UNCHANGED <<confv, dbv, sigv, exitcode, match, envv>>

\* lines 683-692
M_db_init_out ==
  /\ Running
  /\ pc = "db_init_out"
  /\ IF OpensDbOut(action)
     THEN /\ Call("db_init(database_out)")
          /\ \E ok \in BOOLEAN :
               IF ok THEN /\ db_init(DATABASE_OUT, FALSE)
                          /\ Goto("db_writespec")
                     ELSE /\ Exit("IO_ERROR")
                          /\ UNCHANGED open
     ELSE /\ Goto("db_disk_init")
          /\ UNCHANGED dbv
  /\ UNCHANGED <<confv, sigv, exitcode, match, envv>>

\* lines 693-696
M_db_writespec ==
  /\ Running
  /\ pc = "db_writespec"
  /\ Call("db_writespec")
  /\ \E ok \in BOOLEAN :
        IF ok THEN Goto("db_disk_init") ELSE Exit("IO_ERROR")
  /\ UNCHANGED <<confv, open, sigv, exitcode, match, envv>>

\* lines 698-701
M_db_disk_init ==
  /\ Running
  /\ pc = "db_disk_init"
  /\ IF InitsDisk(action)
     THEN /\ Call("db_disk_init")
          /\ \E ok \in BOOLEAN :
               IF ok THEN Goto("db_init_in") ELSE Exit("IO_ERROR")
     ELSE /\ Goto("db_init_in")
          /\ UNCHANGED calls
  /\ UNCHANGED <<confv, open, sigv, exitcode, match, envv>>

\* lines 702-705
M_db_init_in ==
  /\ Running
  /\ pc = "db_init_in"
  /\ IF OpensDbIn(action)
     THEN /\ Call("db_init(database_in)")
          /\ \E ok \in BOOLEAN :
               IF ok THEN /\ db_init(DATABASE_IN, TRUE)
                          /\ Goto("db_init_new")
                     ELSE /\ Exit("IO_ERROR")
                          /\ UNCHANGED open
     ELSE /\ Goto("db_init_new")
          /\ UNCHANGED dbv
  /\ UNCHANGED <<confv, sigv, exitcode, match, envv>>

\* lines 706-709
M_db_init_new ==
  /\ Running
  /\ pc = "db_init_new"
  /\ IF OpensDbNew(action)
     THEN /\ Call("db_init(database_new)")
          /\ \E ok \in BOOLEAN :
               IF ok THEN /\ db_init(DATABASE_NEW, TRUE)
                          /\ Goto("populate_tree")
                     ELSE /\ Exit("IO_ERROR")
                          /\ UNCHANGED open
     ELSE /\ Goto("populate_tree")
          /\ UNCHANGED dbv
  /\ UNCHANGED <<confv, sigv, exitcode, match, envv>>

\* lines 711-712: populate_tree(conf->tree, false) is entered
M_populate_tree ==
  /\ Running
  /\ pc = "populate_tree"
  /\ Call("populate_tree")
  /\ Goto("in_populate_tree")
  /\ UNCHANGED <<confv, open, sigv, exitcode, match, envv>>

\* populate_tree returns
M_populate_tree_return ==
  /\ Running
  /\ pc = "in_populate_tree"
  /\ Goto("write_tree")
  /\ UNCHANGED <<confv, dbv, sigv, exitcode, match, envv>>

\* lines 714-717
M_write_tree ==
  /\ Running
  /\ pc = "write_tree"
  /\ IF WritesTree(action) THEN Call("write_tree") ELSE UNCHANGED calls
  /\ Goto("db_close")
  /\ UNCHANGED <<confv, open, sigv, exitcode, match, envv>>

\* line 719 left out: main goes on to the report without db_close()
M_db_close_Skipped ==
  /\ Running
  /\ pc = "db_close"
  /\ Goto("gen_report")
  /\ UNCHANGED <<confv, dbv, sigv, exitcode, match, envv>>

\* line 719
M_db_close ==
  /\ Running
  /\ pc = "db_close"
  /\ Call("db_close")
  /\ db_close
  /\ Goto("gen_report")
  /\ UNCHANGED <<confv, sigv, exitcode, match, envv>>

\* the values gen_report can return
ReportCodes == {"no_changes", "changes_detected"}

\* line 723
M_gen_report ==
  /\ Running
  /\ pc = "gen_report"
  /\ Call("gen_report")
  /\ exitcode' \in ReportCodes
  /\ Goto("exit")
  /\ UNCHANGED <<confv, open, sigv, match, envv>>

\* the status the parent of the process sees for each argument of exit:
\* the literals of lines 619, 621 and 665, EXIT_FAILURE of the C library,
\* the error macros, and the values of gen_report (0 when nothing changed,
\* else the sum of 1 for added, 2 for removed and 4 for changed entries)
ExitStatus(code) ==
  CASE code = "0" -> {0}
    [] code = "1" -> {1}
    [] code = "2" -> {2}
    [] code = "RETOK" -> {0}
    [] code = "EXIT_FAILURE" -> {1}
    [] code = "INVALID_ARGUMENT_ERROR" -> {15}
    [] code = "INVALID_CONFIGURELINE_ERROR" -> {17}
    [] code = "IO_ERROR" -> {18}
    [] code = "VERSION_MISMATCH_ERROR" -> {19}
    [] code = "no_changes" -> {0}
    [] code = "changes_detected" -> 1..7

\* line 727
M_exit ==
  /\ Running
  /\ pc = "exit"
  /\ Exit(exitcode)
  /\ UNCHANGED <<confv, dbv, sigv, exitcode, match, envv>>

Main ==
  \/ M_init_crypto_lib
  \/ M_setdefaults_malloc
  \/ M_setdefaults_fields
  \/ M_read_param
  \/ M_read_param_end
  \/ M_parse_config
  \/ M_setdefaults_after_config
  \/ M_path_check
  \/ M_check_database_in
  \/ M_check_database_out
  \/ M_check_same_url
  \/ M_check_diff_databases
  \/ M_normalise_db_out_attrs
  \/ M_dry_init
  \/ M_populate_tree_dry
  \/ M_dry_init_exit
  \/ M_non_dry
  \/ M_init_report_urls
  \/ M_root_prefix
  \/ M_db_init_out
  \/ M_db_writespec
  \/ M_db_disk_init
  \/ M_db_init_in
  \/ M_db_init_new
  \/ M_populate_tree
  \/ M_populate_tree_return
  \/ M_write_tree
  \/ M_db_close
  \/ M_gen_report
  \/ M_exit

Next ==
  \/ Main
  \/ Signal
  \/ ArmCatchMmap
  \/ DisarmCatchMmap

Spec == Init /\ [][Next]_vars

\* the start of main up to the return of setdefaults_before_config, in
\* every build
StartUp ==
  \/ M_init_crypto_lib
  \/ M_setdefaults_malloc
  \/ M_setdefaults_fields

GroupSpec == InitAnyBuild /\ [][StartUp]_vars

\* main is the only thread: whenever no handler is running it takes its next
\* step, however many signals are delivered
FairSpec == Spec /\ WF_vars(Main)


(***************************************************************************)
(* Vocabulary of the properties.                                           *)
(***************************************************************************)
\* main has reached the sanity checks of line 626: the action and the three
\* URLs have their final values
SanityCheckPcs ==
  {"check_database_in", "check_database_out", "check_same_url",
   "check_diff_databases"}

BeforeSanityCheckPcs ==
  {"init_crypto_lib", "setdefaults_before_config", "setdefaults_fields",
   "read_param", "parse_config", "setdefaults_after_config", "path_check"}

ReachedSanityChecks == pc \notin BeforeSanityCheckPcs

PassedSanityChecks == pc \notin (BeforeSanityCheckPcs \cup SanityCheckPcs)

DbInitCalls ==
  {"db_init(database_in)", "db_init(database_out)", "db_init(database_new)"}

\* no call of the operations in `ops' has been made
NoneCalled(ops) == \A i \in 1..Len(calls) : calls[i] \notin ops

\* every call of `later' was preceded by a call of `earlier'
CalledBefore(earlier, later) ==
  \A j \in 1..Len(calls) :
     calls[j] = later => \E i \in 1..(j - 1) : calls[i] = earlier

IsUpdate == DO_INIT \in action /\ DO_COMPARE \in action

HandleOut == [db |-> DATABASE_OUT, readonly |-> FALSE]
HandleIn  == [db |-> DATABASE_IN, readonly |-> TRUE]
HandleNew == [db |-> DATABASE_NEW, readonly |-> TRUE]

(***************************************************************************)
(* C1.  When the two databases the action requires resolve to the same     *)
(* location (update: database_in and database_out; DIFF: database_in and   *)
(* database_new), main ends with INVALID_ARGUMENT_ERROR before db_init,    *)
(* db_disk_init and populate_tree are called.                              *)
(* The code compares database_in with database_out only (line 635), so a   *)
(* DIFF run with database_in = database_new is not rejected.               *)
(***************************************************************************)
RequiredDatabasesSame ==
  \/ IsUpdate /\ url_in # NoUrl /\ url_in = url_out
  \/ DO_DIFF \in action /\ url_in # NoUrl /\ url_in = url_new

C1_SameRequiredDatabasesRejected ==
  (ReachedSanityChecks /\ RequiredDatabasesSame) =>
     /\ NoneCalled(DbInitCalls \cup {"db_disk_init", "populate_tree",
                                     "populate_tree(dry)"})
     /\ ~PassedSanityChecks
     /\ (exited = "main" => exit_code = "INVALID_ARGUMENT_ERROR")

(***************************************************************************)
(* C2.  A run that reaches the sanity checks with a required database      *)
(* missing (COMPARE or DIFF without database_in, INIT without              *)
(* database_out, DIFF without database_new) never gets past them, calls    *)
(* none of db_init, db_writespec, db_disk_init, populate_tree, write_tree, *)
(* and when main exits it exits with INVALID_ARGUMENT_ERROR.               *)
(***************************************************************************)
RequiredDatabaseMissing ==
  \/ (DO_COMPARE \in action \/ DO_DIFF \in action) /\ url_in = NoUrl
  \/ DO_INIT \in action /\ url_out = NoUrl
  \/ DO_DIFF \in action /\ (url_in = NoUrl \/ url_new = NoUrl)

C2_PreconditionsBeforeIO ==
  (ReachedSanityChecks /\ RequiredDatabaseMissing) =>
     /\ pc \in SanityCheckPcs
     /\ NoneCalled(DbInitCalls \cup {"db_writespec", "db_disk_init",
                     "populate_tree", "populate_tree(dry)", "write_tree"})
     /\ open = {}
     /\ (exited = "main" => exit_code = "INVALID_ARGUMENT_ERROR")

\* an update run without database_out was rejected by the check of line 631
C2_Witness ==
  /\ exited = "main"
  /\ pc = "check_database_out"
  /\ IsUpdate
  /\ url_in # NoUrl
  /\ url_out = NoUrl
  /\ exit_code = "INVALID_ARGUMENT_ERROR"

(***************************************************************************)
(* C3.  As claimed: whenever main has ended the process, every database    *)
(* handle that was opened has been closed.                                 *)
(***************************************************************************)
C3_ClosedOnEveryExit == exited = "main" => open = {}

(***************************************************************************)
(* C3, amended.  On the path on which every phase succeeds main calls      *)
(* db_close once, before gen_report, and no handle is open from then on.   *)
(* The exits of main that leave a handle open are the IO_ERROR exits of    *)
(* db_writespec, db_disk_init and the later db_init calls; on them         *)
(* db_close has not been called.                                           *)
(***************************************************************************)
C3_ClosedBeforeReport ==
  /\ pc \in {"gen_report", "exit"} =>
        /\ open = {}
        /\ Cardinality({i \in 1..Len(calls) : calls[i] = "db_close"}) = 1
  /\ (exited = "main" /\ open # {}) =>
        /\ exit_code = "IO_ERROR"
        /\ pc \in {"db_writespec", "db_disk_init", "db_init_in", "db_init_new"}
        /\ NoneCalled({"db_close"})

\* an update run that opened both databases has ended through gen_report
C3_Witness ==
  /\ exited = "main"
  /\ pc = "exit"
  /\ IsUpdate
  /\ ~NoneCalled({"db_init(database_out)"})
  /\ ~NoneCalled({"db_init(database_in)"})
  /\ open = {}

(***************************************************************************)
(* C4.  As claimed: in an update run database_out is neither opened nor    *)
(* written (db_init of database_out, db_writespec, write_tree) before      *)
(* database_in has been opened and populate_tree has been called.          *)
(***************************************************************************)
C4_OutputTouchedAfterProbe ==
  IsUpdate =>
     \A op \in {"db_init(database_out)", "db_writespec", "write_tree"} :
        /\ CalledBefore("db_init(database_in)", op)
        /\ CalledBefore("populate_tree", op)

(***************************************************************************)
(* C4, amended.  In an update run only write_tree comes after the probe:   *)
(* it is called after database_in was opened and populate_tree returned.   *)
(* database_out is opened and its header written (db_writespec) first,     *)
(* before db_disk_init, before database_in is opened and before            *)
(* populate_tree.                                                          *)
(***************************************************************************)
C4_OnlyWriteTreeAfterProbe ==
  IsUpdate =>
     /\ CalledBefore("db_init(database_in)", "write_tree")
     /\ CalledBefore("populate_tree", "write_tree")
     /\ ~NoneCalled({"write_tree"}) => pc \in {"db_close", "gen_report", "exit"}
     /\ \A op \in {"db_disk_init", "db_init(database_in)", "populate_tree"} :
           /\ CalledBefore("db_init(database_out)", op)
           /\ CalledBefore("db_writespec", op)

\* an update run has written the tree
C4_Witness ==
  /\ IsUpdate
  /\ pc = "db_close"
  /\ calls = <<"init_report_urls", "db_init(database_out)", "db_writespec",
               "db_disk_init", "db_init(database_in)", "populate_tree",
               "write_tree">>


(***************************************************************************)
(* C5.  A SIGBUS is recovered only while the flag is armed, and each       *)
(* arming pays for one recovery: the number of recovered SIGBUS faults     *)
(* never exceeds the number of times the flag was armed.                   *)
(* sig_handler is installed (line 580) before conf->catch_mmap is          *)
(* initialised (line 468): between checked_malloc (line 373) and line 468  *)
(* the handler reads an indeterminate flag.                                *)
(***************************************************************************)
C5_RecoveredNeverExceedsArmed == recovered <= armed

(***************************************************************************)
(* C6.  As claimed: a run with DRY_RUN set calls none of db_init,          *)
(* db_writespec, write_tree, db_close; and a dry-init run that reaches the *)
(* sanity checks initialises the probe, populates the tree in dry-run mode *)
(* and exits with status 0.                                                *)
(***************************************************************************)
DatabaseHandleOps == DbInitCalls \cup {"db_writespec", "write_tree", "db_close"}

DryInit == DO_INIT \in action /\ DO_DRY_RUN \in action

C6_DryInitExitsZero ==
  /\ DO_DRY_RUN \in action => (NoneCalled(DatabaseHandleOps) /\ open = {})
  /\ (DryInit /\ ReachedSanityChecks /\ exited = "main") =>
        /\ exit_code = "0"
        /\ calls = <<"db_disk_init", "populate_tree(dry)">>

(***************************************************************************)
(* C6, amended.  A run with DRY_RUN set calls none of db_init,             *)
(* db_writespec, write_tree, db_close and never populates the tree in      *)
(* non-dry mode.  A dry-init run must still have database_out defined      *)
(* (line 631, else INVALID_ARGUMENT_ERROR); past the sanity checks it      *)
(* calls db_disk_init and either exits with IO_ERROR when that fails, or   *)
(* populates the tree in dry-run mode and exits with status 0.             *)
(***************************************************************************)
C6_DryRunOpensNothing ==
  /\ DO_DRY_RUN \in action =>
        /\ NoneCalled(DatabaseHandleOps \cup {"populate_tree"})
        /\ open = {}
  /\ DryInit =>
        /\ calls \in {<<>>, <<"db_disk_init">>,
                      <<"db_disk_init", "populate_tree(dry)">>}
        /\ (exited = "main" /\ pc \in SanityCheckPcs) =>
              /\ pc = "check_database_out"
              /\ url_out = NoUrl
              /\ exit_code = "INVALID_ARGUMENT_ERROR"
        /\ (exited = "main" /\ PassedSanityChecks) =>
              \/ /\ pc = "dry_init"
                 /\ exit_code = "IO_ERROR"
                 /\ calls = <<"db_disk_init">>
              \/ /\ pc = "in_populate_tree_dry"
                 /\ exit_code = "0"
                 /\ calls = <<"db_disk_init", "populate_tree(dry)">>

\* a dry-init run has populated the tree and exited with status 0
C6_Witness ==
  /\ DryInit
  /\ exited = "main"
  /\ exit_code = "0"
  /\ calls = <<"db_disk_init", "populate_tree(dry)">>

(***************************************************************************)
(* C7.  In a DIFF run database_out is never opened or written, the         *)
(* filesystem probe is never initialised, the only handles opened are      *)
(* database_in and database_new, both read-only, and both are open when    *)
(* populate_tree runs.                                                     *)
(***************************************************************************)
OpenPhaseDonePcs == {"populate_tree", "in_populate_tree", "write_tree", "db_close"}

C7_DiffOpensInAndNew ==
  action = {DO_DIFF} =>
     /\ NoneCalled({"db_init(database_out)", "db_writespec", "write_tree",
                    "db_disk_init"})
     /\ open \subseteq {HandleIn, HandleNew}
     /\ pc \in OpenPhaseDonePcs => open = {HandleIn, HandleNew}
     /\ pc \in {"gen_report", "exit"} =>
           /\ ~NoneCalled({"db_init(database_in)"})
           /\ ~NoneCalled({"db_init(database_new)"})

\* a DIFF run populates the tree with both input databases open
C7_Witness ==
  /\ action = {DO_DIFF}
  /\ pc = "in_populate_tree"
  /\ open = {HandleIn, HandleNew}
  /\ calls = <<"init_report_urls", "db_init(database_in)",
               "db_init(database_new)", "populate_tree">>

(***************************************************************************)
(* C8.  In a non-dry run the handles opened are determined by the action:  *)
(* database_out (for writing) iff INIT, database_in (read-only) iff        *)
(* COMPARE or DIFF, database_new (read-only) iff DIFF.  No other handle is *)
(* ever opened, all of them are open once the opening phase is over, and   *)
(* at most two handles are open in any state.                              *)
(***************************************************************************)
ExpectedHandles ==
  (IF DO_INIT \in action THEN {HandleOut} ELSE {})
  \cup (IF DO_COMPARE \in action \/ DO_DIFF \in action THEN {HandleIn} ELSE {})
  \cup (IF DO_DIFF \in action THEN {HandleNew} ELSE {})

ExpectedDbInitCalls ==
  { "db_init(" \o h.db \o ")" : h \in ExpectedHandles }

C8_HandlesFollowAction ==
  /\ Cardinality(open) <= 2
  /\ DO_DRY_RUN \notin action =>
        /\ open \subseteq ExpectedHandles
        /\ NoneCalled(DbInitCalls \ ExpectedDbInitCalls)
        /\ pc \in OpenPhaseDonePcs => open = ExpectedHandles
        /\ pc \in OpenPhaseDonePcs \cup {"gen_report", "exit"} =>
              \A c \in ExpectedDbInitCalls : ~NoneCalled({c})
        /\ DO_INIT \notin action => NoneCalled({"db_writespec", "write_tree"})

\* an update run populates the tree with database_out and database_in open
C8_Witness ==
  /\ action = {DO_INIT, DO_COMPARE}
  /\ pc = "in_populate_tree"
  /\ open = {HandleOut, HandleIn}

(***************************************************************************)
(* C9.  At most one command per invocation: the first command option sets  *)
(* conf->action from 0; a further command option ends the run with         *)
(* INVALID_ARGUMENT_ERROR and leaves the action as it was.  conf->action   *)
(* is always one of 0, INIT, INIT|DRY_RUN, COMPARE, INIT|COMPARE, DIFF,    *)
(* DRY_RUN.                                                                *)
(***************************************************************************)
ValidActions ==
  { {}, {DO_INIT}, {DO_INIT, DO_DRY_RUN}, {DO_COMPARE},
    {DO_INIT, DO_COMPARE}, {DO_DIFF}, {DO_DRY_RUN} }

C9_AtMostOneCommand ==
  /\ [](/\ action \in ValidActions
        /\ ncommands <= 2
        /\ (ncommands = 0 /\ pc = "read_param") => action = {}
        /\ ncommands >= 1 => action # {}
        /\ ncommands = 2 =>
              /\ exited = "main"
              /\ pc = "read_param"
              /\ exit_code = "INVALID_ARGUMENT_ERROR")
  /\ [][(pc = "read_param" /\ action # {}) => action' = action]_vars
  /\ [][(ncommands = 0 /\ ncommands' = 1) =>
          action' \in ValidActions \ {{}}]_vars

\* a second command option was rejected after -i
C9_Witness ==
  /\ ncommands = 2
  /\ action = {DO_INIT}
  /\ exited = "main"
  /\ exit_code = "INVALID_ARGUMENT_ERROR"

(***************************************************************************)
(* C10.  SIGTERM, SIGHUP and SIGUSR1 cancel nothing: the delivery of one   *)
(* of them, at any point of the run, leaves the position of main, the      *)
(* action, catch_mmap, the open handles and all the rest of the            *)
(* configuration unchanged and does not end the process; only SIGBUS ever  *)
(* ends the process from the handler; and whatever signals arrive, main    *)
(* goes on until the run has ended.                                        *)
(***************************************************************************)
NonFatalSignals == {"SIGTERM", "SIGHUP", "SIGUSR1"}

C10_NoSignalCancellation ==
  /\ [][\A signum \in NonFatalSignals :
          Deliver(signum) =>
             /\ UNCHANGED <<pc, exited, exit_code, action, catch_mmap, open,
                            calls, confv, exitcode, armed, recovered,
                            handlers>>]_vars
  /\ [](exited \in {"signal", "fault"} => last_signal = "SIGBUS")
  /\ <>(exited # "no")

\* an update run that received SIGTERM went through all its phases
C10_Witness ==
  /\ last_signal = "SIGTERM"
  /\ exited = "main"
  /\ pc = "exit"
  /\ action = {DO_INIT, DO_COMPARE}
  /\ calls = <<"init_report_urls", "db_init(database_out)", "db_writespec",
               "db_disk_init", "db_init(database_in)", "populate_tree",
               "write_tree", "db_close", "gen_report">>

(***************************************************************************)
(* C11.  As claimed: every exit that is no success (every exit but the     *)
(* exit with the value of gen_report, the exits 0 of the dry init, of the  *)
(* help and version options and of a matching path check, and the return   *)
(* of RETOK) has a status that is none of the statuses of                  *)
(* success-no-changes and success-changes-detected, the fatal SIGBUS exit  *)
(* and the path-check exits included; and the exits of read_param and of   *)
(* the sanity checks use INVALID_ARGUMENT_ERROR, those of parse_config,    *)
(* init_report_urls and the root prefix INVALID_CONFIGURELINE_ERROR, those *)
(* of db_init, db_writespec and db_disk_init IO_ERROR, that of             *)
(* init_crypto_lib VERSION_MISMATCH_ERROR.                                 *)
(***************************************************************************)
SuccessStatuses == ExitStatus("no_changes") \cup ExitStatus("changes_detected")

SuccessfulExit ==
  /\ exited = "main"
  /\ \/ pc \in {"exit", "non_dry", "in_populate_tree_dry"}
     \/ pc \in {"read_param", "path_check"} /\ exit_code = "0"

AbnormalExit == exited \in {"main", "signal"} /\ ~SuccessfulExit

ConfigurationPcs == {"parse_config", "init_report_urls", "root_prefix"}

DatabaseIoPcs ==
  {"dry_init", "db_init_out", "db_writespec", "db_disk_init", "db_init_in",
   "db_init_new"}

FailureClassCode ==
  /\ pc = "init_crypto_lib" => exit_code = "VERSION_MISMATCH_ERROR"
  /\ pc \in SanityCheckPcs => exit_code = "INVALID_ARGUMENT_ERROR"
  /\ pc \in ConfigurationPcs => exit_code = "INVALID_CONFIGURELINE_ERROR"
  /\ pc \in DatabaseIoPcs => exit_code = "IO_ERROR"

C11_AbnormalCodesDistinct ==
  AbnormalExit =>
     /\ ExitStatus(exit_code) \cap SuccessStatuses = {}
     /\ exited = "main" => FailureClassCode
     /\ (exited = "main" /\ pc = "read_param") =>
           exit_code = "INVALID_ARGUMENT_ERROR"

(***************************************************************************)
(* C11, amended.  The failure classes of main have their own fixed codes:  *)
(* the sanity checks exit with INVALID_ARGUMENT_ERROR, parse_config,       *)
(* init_report_urls and the root prefix with INVALID_CONFIGURELINE_ERROR,  *)
(* db_init, db_writespec and db_disk_init with IO_ERROR, init_crypto_lib   *)
(* with VERSION_MISMATCH_ERROR; an exit with one of these four codes has a *)
(* status that is no status of a success and no status of a path check.    *)
(* The other exits do not use them: read_param exits with                  *)
(* INVALID_ARGUMENT_ERROR, with EXIT_FAILURE (no memory for the match data *)
(* of --limit) or with 0 (help, version); the fatal SIGBUS exit uses       *)
(* EXIT_FAILURE; a path check exits with 0, 1 or 2.  The statuses of       *)
(* EXIT_FAILURE and of the path-check exits 1 and 2 are statuses           *)
(* gen_report returns for detected changes.                                *)
(***************************************************************************)
FailureCodes ==
  {"INVALID_ARGUMENT_ERROR", "INVALID_CONFIGURELINE_ERROR", "IO_ERROR",
   "VERSION_MISMATCH_ERROR"}

PathCheckStatuses == {0, 1, 2}

C11_FailureClassesHaveFixedCodes ==
  /\ exited = "main" =>
        /\ FailureClassCode
        /\ pc = "read_param" =>
              exit_code \in {"INVALID_ARGUMENT_ERROR", "EXIT_FAILURE", "0"}
        /\ pc = "path_check" => exit_code \in {"0", "1", "2"}
        /\ pc = "in_populate_tree_dry" => exit_code = "0"
        /\ pc = "non_dry" => exit_code = "RETOK"
        /\ pc = "exit" => exit_code \in {"no_changes", "changes_detected"}
        /\ exit_code \in FailureCodes =>
              ExitStatus(exit_code) \cap (SuccessStatuses \cup PathCheckStatuses)
                 = {}
        /\ (AbnormalExit /\ exit_code \notin FailureCodes) =>
              /\ pc \in {"read_param", "path_check"}
              /\ ExitStatus(exit_code) \subseteq ExitStatus("changes_detected")
  /\ exited = "signal" =>
        /\ exit_code = "EXIT_FAILURE"
        /\ last_signal = "SIGBUS"
        /\ ExitStatus(exit_code) \subseteq ExitStatus("changes_detected")

\* db_writespec failed and main exited with IO_ERROR
C11_Witness ==
  /\ exited = "main"
  /\ pc = "db_writespec"
  /\ exit_code = "IO_ERROR"
  /\ open = {HandleOut}

(***************************************************************************)
(* C12.  As claimed: once setdefaults_before_config has returned, in a     *)
(* build with a content hash (md5) the group R is exactly {perm, ftype,    *)
(* inode, linkcount, uid, gid, size, linkname, mtime, ctime, md5}, in      *)
(* every build of the optional platform attributes.                        *)
(***************************************************************************)
SetdefaultsReturned ==
  pc \notin {"init_crypto_lib", "setdefaults_before_config",
             "setdefaults_fields"}

\* md5 is compiled in (libmhash), or provided by libgcrypt outside FIPS mode
ContentHashAvailable ==
  "WITH_MHASH" \in build \/ ("WITH_GCRYPT" \in build /\ ~fips)

ListedAttrsOfR ==
  {"perm", "ftype", "inode", "linkcount", "uid", "gid", "size", "linkname",
   "mtime", "ctime", "md5"}

C12_GroupRExactlyListed ==
  (SetdefaultsReturned /\ ContentHashAvailable) =>
     /\ "R" \in DOMAIN groupsyms
     /\ groupsyms["R"] = ListedAttrsOfR

(***************************************************************************)
(* C12, amended.  Once setdefaults_before_config has returned, in a build  *)
(* with a content hash the group R contains every attribute of {perm,      *)
(* ftype, inode, linkcount, uid, gid, size, linkname, mtime, ctime, md5},  *)
(* and the attributes of R outside this list are exactly the optional      *)
(* platform attributes the build was compiled with (acl, selinux, xattrs,  *)
(* e2fsattrs, capabilities); R is the listed set only in a build without   *)
(* any of them.                                                            *)
(***************************************************************************)
CompiledPlatformAttrs ==
  { a \in {"acl", "selinux", "xattrs", "e2fsattrs", "capabilities"} :
      \/ a = "acl" /\ "WITH_ACL" \in build
      \/ a = "selinux" /\ "WITH_SELINUX" \in build
      \/ a = "xattrs" /\ "WITH_XATTR" \in build
      \/ a = "e2fsattrs" /\ "WITH_E2FSATTRS" \in build
      \/ a = "capabilities" /\ "WITH_CAPABILITIES" \in build }

C12_GroupRListedPlusPlatform ==
  (SetdefaultsReturned /\ ContentHashAvailable) =>
     /\ "R" \in DOMAIN groupsyms
     /\ ListedAttrsOfR \subseteq groupsyms["R"]
     /\ groupsyms["R"] \ ListedAttrsOfR = CompiledPlatformAttrs

\* a build with ACLs and md5: R holds the listed attributes and acl
C12_Witness ==
  /\ pc = "read_param"
  /\ build = {"WITH_GCRYPT", "WITH_ACL"}
  /\ ~fips
  /\ groupsyms["R"] = ListedAttrsOfR \cup {"acl"}

(***************************************************************************)
(* C13.  The check of identical locations ends a run only when the two     *)
(* identical databases are both required by the action: main exits at the  *)
(* comparison of database_in with database_out only in an update run; an   *)
(* INIT run, a COMPARE run and a DIFF run (which requires database_in and  *)
(* database_new, not database_out) with database_in and database_out at    *)
(* the same location are not ended there.                                  *)
(* The code ends a DIFF run there (lines 642-646): the comparison that the *)
(* error message of line 643 describes, database_in with database_new, is  *)
(* made with database_out (see C1).                                        *)
(***************************************************************************)
RejectedForSameInOut == exited = "main" /\ pc = "check_same_url"

C13_SameInOutRejectedOnlyIfBothRequired ==
  /\ RejectedForSameInOut =>
        (IsUpdate /\ url_in # NoUrl /\ url_in = url_out)
  /\ (ReachedSanityChecks /\ url_in # NoUrl /\ url_in = url_out
         /\ action \in {{DO_INIT}, {DO_COMPARE}, {DO_DIFF}}) =>
        ~RejectedForSameInOut

(***************************************************************************)
(* C14.  In a run without DRY_RUN that has passed the sanity checks the    *)
(* operations are called in one fixed order, each at most once: the        *)
(* handles the action requires are opened, populate_tree is called once    *)
(* (also in an update run), then write_tree iff INIT is set, then          *)
(* db_close, then gen_report; all required handles are open while          *)
(* populate_tree runs; exitcode is assigned by the call of gen_report      *)
(* only, and the exit at the end of the run uses it.                       *)
(***************************************************************************)
IsPrefix(s, t) == Len(s) <= Len(t) /\ s = SubSeq(t, 1, Len(s))

ExpectedPhases ==
  <<"init_report_urls">>
  \o (IF DO_INIT \in action
      THEN <<"db_init(database_out)", "db_writespec">> ELSE <<>>)
  \o (IF DO_INIT \in action \/ DO_COMPARE \in action
      THEN <<"db_disk_init">> ELSE <<>>)
  \o (IF DO_COMPARE \in action \/ DO_DIFF \in action
      THEN <<"db_init(database_in)">> ELSE <<>>)
  \o (IF DO_DIFF \in action THEN <<"db_init(database_new)">> ELSE <<>>)
  \o <<"populate_tree">>
  \o (IF DO_INIT \in action THEN <<"write_tree">> ELSE <<>>)
  \o <<"db_close", "gen_report">>

C14_PhasesInOrder ==
  /\ [](( DO_DRY_RUN \notin action /\ PassedSanityChecks) =>
          /\ IsPrefix(calls, ExpectedPhases)
          /\ pc = "in_populate_tree" => open = ExpectedHandles
          /\ pc = "gen_report" => calls \o <<"gen_report">> = ExpectedPhases
          /\ pc = "exit" =>
                /\ calls = ExpectedPhases
                /\ exitcode \in {"no_changes", "changes_detected"}
                /\ exited = "main" => exit_code = exitcode)
  /\ [][exitcode' # exitcode =>
          /\ pc = "gen_report"
          /\ calls' = Append(calls, "gen_report")]_vars

\* a COMPARE run went through its phases and exited with gen_report's value
C14_Witness ==
  /\ action = {DO_COMPARE}
  /\ exited = "main"
  /\ pc = "exit"
  /\ exit_code = "changes_detected"
  /\ calls = <<"init_report_urls", "db_disk_init", "db_init(database_in)",
               "populate_tree", "db_close", "gen_report">>

(***************************************************************************)
(* C15.  Once setdefaults_before_config has returned, the groups R, L, >,  *)
(* H, X and E are all defined; E is the empty attribute set, H is exactly  *)
(* the set of hash attributes get_hashes reports as available, X is a      *)
(* subset of each of R, L and >, and L is a subset of R.                   *)
(***************************************************************************)
PredefinedGroups == {"R", "L", ">", "H", "X", "E"}

C15_PredefinedGroups ==
  SetdefaultsReturned =>
     /\ PredefinedGroups \subseteq DOMAIN groupsyms
     /\ groupsyms["E"] = {}
     /\ groupsyms["H"] = get_hashes(build, fips)
     /\ \A g \in {"R", "L", ">"} : groupsyms["X"] \subseteq groupsyms[g]
     /\ groupsyms["L"] \subseteq groupsyms["R"]

\* a build with libmhash and SELinux: X is {selinux}, H is every hash
C15_Witness ==
  /\ pc = "read_param"
  /\ build = {"WITH_MHASH", "WITH_SELINUX"}
  /\ groupsyms["X"] = {"selinux"}
  /\ groupsyms["H"] = {"md5", "sha256"}
  /\ groupsyms["E"] = {}
  /\ "selinux" \in groupsyms["L"]

(***************************************************************************)
(* C16.  When no command option was given, conf->action is COMPARE from    *)
(* the return of setdefaults_after_config on, before the sanity checks:    *)
(* the run needs database_in (without it main exits at the check of line   *)
(* 627 with INVALID_ARGUMENT_ERROR) and never opens or writes              *)
(* database_out.  An action that is set is never changed: the default does *)
(* not override the action of a command option.                            *)
(***************************************************************************)
BeforeDefaultActionPcs ==
  {"init_crypto_lib", "setdefaults_before_config", "setdefaults_fields",
   "read_param", "parse_config", "setdefaults_after_config"}

C16_DefaultActionIsCompare ==
  /\ [](pc \notin BeforeDefaultActionPcs =>
          /\ action # {}
          /\ ncommands = 0 =>
                /\ action = {DO_COMPARE}
                /\ NoneCalled({"db_init(database_out)", "db_writespec",
                               "write_tree"})
                /\ HandleOut \notin open
                /\ url_in = NoUrl =>
                      /\ pc \in {"path_check", "check_database_in"}
                      /\ exited = "main" =>
                            /\ pc = "check_database_in"
                            /\ exit_code = "INVALID_ARGUMENT_ERROR")
  /\ [][action # {} => action' = action]_vars

\* a run without a command option populates the tree as a COMPARE run
C16_Witness ==
  /\ ncommands = 0
  /\ action = {DO_COMPARE}
  /\ pc = "in_populate_tree"
  /\ open = {HandleIn}
  /\ calls = <<"init_report_urls", "db_disk_init", "db_init(database_in)",
               "populate_tree">>

(***************************************************************************)
(* C17.  A path-check run (conf->check_path set by -p) ends at the rule    *)
(* tree lookup, before the sanity checks of the databases: main never gets *)
(* past the path check, calls no database or probe operation and opens no  *)
(* handle, whatever the three database URLs are, and its exit there has    *)
(* status 0 iff check_rxtree returned a value > 0, 1 iff it returned 0,    *)
(* and 2 iff it returned a value < 0.                                      *)
(***************************************************************************)
C17_PathCheckExits ==
  /\ check_path =>
        /\ pc \in {"read_param", "parse_config", "setdefaults_after_config",
                    "path_check"}
        /\ calls = <<>>
        /\ open = {}
  /\ (exited = "main" /\ pc = "path_check") =>
        /\ check_path
        /\ Cardinality(match) = 1
        /\ exit_code \in {"0", "1", "2"}
        /\ \A m \in match :
              /\ exit_code = "0" <=> m > 0
              /\ exit_code = "1" <=> m = 0
              /\ exit_code = "2" <=> m < 0
  /\ (check_path /\ pc = "path_check" /\ exited = "no") => match = {}

\* a path check without any database defined found a match and exited 0
C17_Witness ==
  /\ check_path
  /\ exited = "main"
  /\ pc = "path_check"
  /\ url_in = NoUrl
  /\ url_out = NoUrl
  /\ url_new = NoUrl
  /\ match = {2}
  /\ exit_code = "0"

(***************************************************************************)
(* C18.  Whenever database_out has been opened or written (db_init of      *)
(* database_out, db_writespec, write_tree), conf->db_out_attrs contains    *)
(* size if it contains sizeg.  From the sanity checks on, a step changes   *)
(* db_out_attrs only by adding size: every other attribute stays as it     *)
(* was.                                                                    *)
(***************************************************************************)
OutputDatabaseOps == {"db_init(database_out)", "db_writespec", "write_tree"}

C18_SizegImpliesSize ==
  /\ [](~NoneCalled(OutputDatabaseOps) =>
          ("sizeg" \in db_out_attrs => "size" \in db_out_attrs))
  /\ [][ReachedSanityChecks =>
          /\ db_out_attrs \subseteq db_out_attrs'
          /\ db_out_attrs' \ db_out_attrs \subseteq {"size"}
          /\ "sizeg" \notin db_out_attrs => db_out_attrs' = db_out_attrs]_vars

\* an INIT run with sizeg in database_attrs has written the tree
C18_Witness ==
  /\ action = {DO_INIT}
  /\ pc = "db_close"
  /\ db_out_attrs = {"filename", "attr", "perm", "inode", "sizeg", "size"}
  /\ calls = <<"init_report_urls", "db_init(database_out)", "db_writespec",
               "db_disk_init", "populate_tree", "write_tree">>

(***************************************************************************)
(* C19.  sig_handler ends by installing itself again for SIGBUS, SIGTERM,  *)
(* SIGUSR1 and SIGHUP, whether or not the delivery reset the disposition   *)
(* of the signal: in every state between two steps of main, after any      *)
(* number of signals the handler returned from, the disposition of all     *)
(* four signals is sig_handler, so that none of them is delivered with the *)
(* default disposition.                                                    *)
(***************************************************************************)
C19_HandlerReinstalled ==
  handlers = {"SIGBUS", "SIGTERM", "SIGUSR1", "SIGHUP"}

\* the handler recovered from a SIGBUS in populate_tree and main goes on
C19_Witness ==
  /\ exited = "no"
  /\ pc = "in_populate_tree"
  /\ last_signal = "SIGBUS"
  /\ armed = 1
  /\ recovered = 1
  /\ catch_mmap = 0
  /\ handlers = {"SIGBUS", "SIGTERM", "SIGUSR1", "SIGHUP"}

====
